---- MODULE Spec2Model ----
(***************************************************************************)
(* PaymentTokenator: peer-to-peer Bitcoin payment tokens over a message    *)
(* transport.  The repository holds two revisions of the class:            *)
(*   "direct"    src/src/PaymentTokenator.js  (getP2PKHOutputInfo helper,   *)
(*               rejectPayment re-spends the incoming output)              *)
(*   "custodial" src/unnamed/part_000         (rejectPayment accepts the    *)
(*               payment, then pays amount - fee back)                     *)
(* Both are modelled; the variable rev says which one is running.          *)
(*                                                                         *)
(* The collaborators (wallet SDK, Ninja, bsv, the Tokenator base class)    *)
(* are outside the repository.  Each call to one of them is logged with    *)
(* its arguments, and its outcome is an input of the handler (e): it may   *)
(* succeed or throw.  The transport keeps every field of the message it is *)
(* handed, text-encodes the body, and adds messageId and sender; it stores *)
(* a message whichever primitive (send, live send) it was handed to.       *)
(*                                                                         *)
(* Three specifications: Spec takes each call of the API as one step;      *)
(* SpecE2E is the scenario send, list, accept, accept; SpecRace lets two   *)
(* calls of acceptPayment/rejectPayment on one message interleave at       *)
(* their awaits.                                                           *)
(***************************************************************************)
EXTENDS Integers, Sequences, FiniteSets, TLC

VARIABLES
  rev,               \* the revision of the class that is running
  clientPrivateKey,  \* whether the instance was given a private key
  store,             \* the transport: every message stored, in order
  acked,             \* the transport: ids of the acknowledged messages
  last,              \* the last call of the API: arguments, result, external calls
  hist,              \* the calls of the end-to-end scenario so far (SpecE2E)
  race               \* the two calls in flight on one message (SpecRace)

vars == <<rev, clientPrivateKey, store, acked, last, hist, race>>

\* ---------------------------------------------------------------- bounds
MaxMsgs == 2

\* ------------------------------------------------------------- constants
STANDARD_PAYMENT_MESSAGEBOX == "payment_inbox"
ProtocolString == "3241645161d8"
SecurityLevel == 2
ProtocolID == <<SecurityLevel, ProtocolString>>
FixedFee == 1000
DustThreshold == 1000
ERR_INVALID_ACKNOWLEDGMENT == "ERR_INVALID_ACKNOWLEDGMENT"
UnableToReceive == "Unable to receive payment!"
UnableToSendBack == "Unable to send back rejected payment!"

Revisions == {"direct", "custodial"}
Parties == {"S", "R"}
Amounts == {1999, 2000, 10000}

\* A property that is absent from a JavaScript object reads as undefined.
Undefined == "undefined"
Field(obj, f) == IF f \in DOMAIN obj THEN obj[f] ELSE Undefined

\* How a function call ends: it returns a value or throws an error, and in
\* both cases has made the external calls listed in calls.
\* kind is the type of the value: "token", "PaymentResult", "failure" (a
\* string), "list", "transport" (what the transport returned), "info",
\* "action", "lib", "undefined", and "error" for a thrown error.
Ret(kind, v, calls) ==
  [status |-> "return", kind |-> kind, value |-> v, calls |-> calls]
Throw(err, calls) ==
  [status |-> "throw", kind |-> "error", value |-> err, calls |-> calls]

\* ------------------------------------------------- text encoding of a body
\* The transport sends JSON.stringify(body); listIncomingPayments parses it.
JSONstringify(b) == <<"json", b.derivationPrefix, b.transaction, b.amount>>

JSONparse(s) ==
  [derivationPrefix |-> s[2], transaction |-> s[3], amount |-> s[4]]

\* ------------------------------------------------------ output derivation
\* The key the derivation service returns: a function of the caller, the
\* protocol, the key id and the counterparty.
DerivedKey(caller, protocolID, keyID, counterparty) ==
  [deriver |-> caller, protocolID |-> protocolID, keyID |-> keyID,
   counterparty |-> counterparty]

KeyID(prefix, suffix) == <<prefix, " ", suffix>>

getP2PKHOutputInfo(caller, recipient, e) ==
  LET keyID == KeyID(e.prefix, e.suffix)
      pk == DerivedKey(caller, ProtocolID, keyID, recipient)
      c1 == [call |-> "getPublicKey", protocolID |-> ProtocolID, keyID |-> keyID,
             counterparty |-> recipient, outcome |-> e.derive]
      c2 == [call |-> "Script", publicKey |-> pk, outcome |-> e.script]
  IN IF e.derive # "ok" THEN Throw("ERR_DERIVE", <<c1>>)
     ELSE IF e.script # "ok" THEN Throw("ERR_SCRIPT", <<c1, c2>>)
     ELSE Ret("info", [derivationPrefix |-> e.prefix, derivationSuffix |-> e.suffix,
                       derivedPublicKey |-> pk, script |-> <<"p2pkh", pk>>],
              <<c1, c2>>)

\* The id of a transaction: a hash of its content.
Txid(rawTx) == <<"txid", rawTx>>

\* BabbageSDK.createAction: the artifact of a built transaction.
createAction(inputs, outputs, description, e) ==
  LET c == [call |-> "createAction", inputs |-> inputs, outputs |-> outputs,
            description |-> description, outcome |-> e.build]
  IN IF e.build # "ok" THEN Throw("ERR_BUILD", <<c>>)
     ELSE LET rawTx == [inputs |-> inputs, outputs |-> outputs]
          IN Ret("action", [txid |-> Txid(rawTx), rawTx |-> rawTx], <<c>>)

\* {...paymentAction, outputs: [...]}
WithOutputs(action, outs) ==
  [txid |-> action.txid, rawTx |-> action.rawTx, outputs |-> outs]

\* Mutant: the builder's artifact is wrapped with the outputs it was asked
\* for, not with the {vout, satoshis, derivationSuffix} descriptor.
TokenBodyWithBuilderOutputs(info, action, amount) ==
  [derivationPrefix |-> info.derivationPrefix,
   transaction |-> WithOutputs(action, action.rawTx.outputs),
   amount |-> amount]

TokenBody(info, action, amount) ==
  [derivationPrefix |-> info.derivationPrefix,
   transaction |-> WithOutputs(action,
       <<[vout |-> 0, satoshis |-> amount, derivationSuffix |-> info.derivationSuffix]>>),
   amount |-> amount]

\* Mutant: the token is addressed to another inbox than the one listed.
TokenizeOtherInbox(payment, body) ==
  [f \in (DOMAIN payment) \cup {"messageBox", "body"} |->
     IF f = "messageBox" THEN "payments"
     ELSE IF f = "body" THEN body
     ELSE payment[f]]

\* payment.messageBox = ...; payment.body = ...; return payment
Tokenize(payment, body) ==
  [f \in (DOMAIN payment) \cup {"messageBox", "body"} |->
     IF f = "messageBox" THEN STANDARD_PAYMENT_MESSAGEBOX
     ELSE IF f = "body" THEN body
     ELSE payment[f]]

\* The party createPaymentToken names as counterparty of the derivation.
TokenCounterparty(r, payment) ==
  IF r = "direct" THEN Field(payment, "sender") ELSE Field(payment, "recipient")

\* Mutant: a failure of the derivation or of the build is caught, and the
\* payment is returned as it was given.
createPaymentTokenSwallowing(r, caller, payment, e) ==
  LET d == getP2PKHOutputInfo(caller, TokenCounterparty(r, payment), e)
  IN IF d.status = "throw" THEN Ret("token", payment, d.calls)
     ELSE LET info == d.value
              a == createAction(<<>>,
                     <<[script |-> info.script, satoshis |-> payment.amount]>>,
                     "Tokenator payment", e)
          IN IF a.status = "throw" THEN Ret("token", payment, d.calls \o a.calls)
             ELSE Ret("token",
                      Tokenize(payment, TokenBody(info, a.value, payment.amount)),
                      d.calls \o a.calls)

createPaymentToken(r, caller, payment, e) ==
  LET d == getP2PKHOutputInfo(caller, TokenCounterparty(r, payment), e)
  IN IF d.status = "throw" THEN d
     ELSE LET info == d.value
              a == createAction(<<>>,
                     <<[script |-> info.script, satoshis |-> payment.amount]>>,
                     "Tokenator payment", e)
          IN IF a.status = "throw" THEN Throw(a.value, d.calls \o a.calls)
             ELSE Ret("token",
                      Tokenize(payment, TokenBody(info, a.value, payment.amount)),
                      d.calls \o a.calls)

\* ------------------------------------------------------------- transport
\* this.sendMessage / this.sendLiveMessage of the base class.
transportSend(primitive, message, e) ==
  LET c == [call |-> primitive, message |-> message, outcome |-> e.send]
  IN IF e.send # "ok" THEN Throw("ERR_SEND", <<c>>)
     ELSE Ret("transport", "sent", <<c>>)

sendLivePayment(r, caller, payment, e) ==
  LET t == createPaymentToken(r, caller, payment, e)
  IN IF t.status = "throw" THEN t
     ELSE LET s == transportSend("sendLiveMessage", t.value, e)
          IN IF s.status = "throw" THEN Throw(s.value, t.calls \o s.calls)
             ELSE Ret("undefined", Undefined, t.calls \o s.calls)

sendPayment(r, caller, payment, e) ==
  IF r = "custodial" THEN sendLivePayment(r, caller, payment, e)
  ELSE LET t == createPaymentToken(r, caller, payment, e)
       IN IF t.status = "throw" THEN t
          ELSE LET s == transportSend("sendMessage", t.value, e)
               IN IF s.status = "throw" THEN Throw(s.value, t.calls \o s.calls)
                  ELSE Ret("transport", s.value, t.calls \o s.calls)

\* What the transport answers to an acknowledgment of message id: a fault of
\* its own (e.ack), 'already acknowledged' for a message that is not
\* waiting in an inbox, success otherwise.
AckOutcome(id, e) ==
  IF e.ack # "ok" THEN "ERR_TRANSPORT"
  ELSE IF id \in acked \/ id \notin 1..Len(store) THEN ERR_INVALID_ACKNOWLEDGMENT
  ELSE "ok"

\* this.acknowledgeMessage({ messageIds: [id] })
acknowledgeMessage(id, e) ==
  LET o == AckOutcome(id, e)
      c == [call |-> "acknowledgeMessage", messageIds |-> <<id>>, outcome |-> o]
  IN IF o = "ok" THEN Ret("undefined", Undefined, <<c>>) ELSE Throw(o, <<c>>)

\* Mutant: the acknowledgment without its catch.
acknowledgeStrictly(id, e) == acknowledgeMessage(id, e)

\* Mutant: the catch tests for the wrong error code.
acknowledgeSwallowingFaults(id, e) ==
  LET a == acknowledgeMessage(id, e)
  IN IF a.status = "throw" /\ a.value # "ERR_TRANSPORT" THEN a
     ELSE Ret("undefined", Undefined, a.calls)

\* try { await this.acknowledgeMessage(...) } catch (error) {
\*   if (error.code !== 'ERR_INVALID_ACKNOWLEDGMENT') throw error }
acknowledgeIfNotAlready(id, e) ==
  LET a == acknowledgeMessage(id, e)
  IN IF a.status = "throw" /\ a.value # ERR_INVALID_ACKNOWLEDGMENT THEN a
     ELSE Ret("undefined", Undefined, a.calls)

\* ------------------------------------------------------------ acceptance
\* The signing strategy: the ambient SDK, or a Ninja built from the key.
getLib(hasKey, e) ==
  IF ~hasKey THEN Ret("lib", "BabbageSDK", <<>>)
  ELSE LET c == [call |-> "Ninja", outcome |-> e.lib]
       IN IF e.lib # "ok" THEN Throw("ERR_NINJA", <<c>>)
          ELSE Ret("lib", "ninja", <<c>>)

submitDirectTransaction(lib, payment, e) ==
  LET c == [call |-> "submitDirectTransaction", lib |-> lib,
            protocol |-> ProtocolString,
            senderIdentityKey |-> payment.sender,
            note |-> "PeerServ payment",
            amount |-> payment.amount,
            derivationPrefix |-> payment.token.derivationPrefix,
            transaction |-> payment.token.transaction,
            outcome |-> e.claim]
  IN IF e.claim # "ok" THEN Throw("ERR_CLAIM", <<c>>)
     ELSE Ret("claim", [status |-> "success", txid |-> payment.token.transaction.txid],
              <<c>>)

\* Mutant: the message is acknowledged before the claim is submitted.
tryAcceptAcknowledgingFirst(hasKey, payment, e) ==
  LET lib == getLib(hasKey, e)
  IN IF lib.status = "throw" THEN lib
     ELSE LET a == acknowledgeIfNotAlready(payment.messageId, e)
          IN IF a.status = "throw" THEN Throw(a.value, lib.calls \o a.calls)
             ELSE LET claim == submitDirectTransaction(lib.value, payment, e)
                      calls == lib.calls \o a.calls \o claim.calls
                  IN IF claim.status = "throw" THEN Throw(claim.value, calls)
                     ELSE Ret("PaymentResult",
                              [payment |-> payment, paymentResult |-> claim.value],
                              calls)

\* The body of acceptPayment's try block.
tryAccept(hasKey, payment, e) ==
  LET lib == getLib(hasKey, e)
  IN IF lib.status = "throw" THEN lib
     ELSE LET claim == submitDirectTransaction(lib.value, payment, e)
          IN IF claim.status = "throw" THEN Throw(claim.value, lib.calls \o claim.calls)
             ELSE LET a == acknowledgeIfNotAlready(payment.messageId, e)
                      calls == lib.calls \o claim.calls \o a.calls
                  IN IF a.status = "throw" THEN Throw(a.value, calls)
                     ELSE Ret("PaymentResult",
                              [payment |-> payment, paymentResult |-> claim.value],
                              calls)

\* Mutant: the claim and the acknowledgment outside any try.
acceptPaymentUncaught(hasKey, payment, e) == tryAccept(hasKey, payment, e)

acceptPayment(hasKey, payment, e) ==
  LET t == tryAccept(hasKey, payment, e)
  IN IF t.status = "throw" THEN Ret("failure", UnableToReceive, t.calls) ELSE t

\* ------------------------------------------------------------- rejection
rejectPaymentCustodial(caller, hasKey, payment, e) ==
  IF payment.token.amount - FixedFee < DustThreshold
  THEN LET a == acknowledgeMessage(payment.messageId, e)
       IN IF a.status = "throw" THEN a ELSE Ret("undefined", Undefined, a.calls)
  ELSE LET acc == acceptPayment(hasKey, payment, e)
       IN IF acc.status = "throw" THEN acc
          ELSE LET s == sendPayment("custodial", caller,
                          [recipient |-> payment.sender,
                           amount |-> payment.token.amount - FixedFee], e)
               IN IF s.status = "throw" THEN Throw(s.value, acc.calls \o s.calls)
                  ELSE Ret("undefined", Undefined, acc.calls \o s.calls)

\* new bsv.Transaction(rawTx)
parseTransaction(rawTx, e) ==
  LET c == [call |-> "Transaction", rawTx |-> rawTx, outcome |-> e.parse]
  IN IF e.parse # "ok" THEN Throw("ERR_PARSE", <<c>>) ELSE Ret("tx", rawTx, <<c>>)

\* Mutant: the direct refund acknowledges the message before it builds the
\* refund transaction.
tryRejectDirectAcknowledgingFirst(caller, payment, e) ==
  LET a == acknowledgeIfNotAlready(payment.messageId, e)
  IN IF a.status = "throw" THEN a
     ELSE LET d == getP2PKHOutputInfo(caller, payment.sender, e)
          IN IF d.status = "throw" THEN Throw(d.value, a.calls \o d.calls)
     ELSE LET prevTx == parseTransaction(payment.token.transaction.rawTx, e)
              c0 == a.calls \o d.calls \o prevTx.calls
          IN IF prevTx.status = "throw" THEN Throw(prevTx.value, c0)
     ELSE LET info == d.value
              tx == payment.token.transaction
              out == createAction(
                  <<[txid |-> tx.txid, rawTx |-> tx.rawTx, outputs |-> tx.outputs,
                     outputsToRedeem |-> <<[index |-> 0,
                        unlockingScript |-> prevTx.value.outputs[1].script]>>]>>,
                  <<[script |-> info.script, satoshis |-> payment.token.amount]>>,
                  "Reject an incoming payment", e)
              c1 == c0 \o out.calls
          IN IF out.status = "throw" THEN Throw(out.value, c1)
     ELSE LET s == transportSend("sendMessage",
                      TokenBody(info, out.value, payment.token.amount), e)
          IN IF s.status = "throw" THEN Throw(s.value, c1 \o s.calls)
             ELSE Ret("transport", s.value, c1 \o s.calls)

\* The body of the try block of the direct refund.
tryRejectDirect(caller, payment, e) ==
  LET d == getP2PKHOutputInfo(caller, payment.sender, e)
  IN IF d.status = "throw" THEN d
     ELSE LET prevTx == parseTransaction(payment.token.transaction.rawTx, e)
          IN IF prevTx.status = "throw" THEN Throw(prevTx.value, d.calls \o prevTx.calls)
     ELSE LET info == d.value
              tx == payment.token.transaction
              out == createAction(
                  <<[txid |-> tx.txid, rawTx |-> tx.rawTx, outputs |-> tx.outputs,
                     outputsToRedeem |-> <<[index |-> 0,
                        unlockingScript |-> prevTx.value.outputs[1].script]>>]>>,
                  <<[script |-> info.script, satoshis |-> payment.token.amount]>>,
                  "Reject an incoming payment", e)
              c1 == d.calls \o prevTx.calls \o out.calls
          IN IF out.status = "throw" THEN Throw(out.value, c1)
     ELSE LET a == acknowledgeIfNotAlready(payment.messageId, e)
          IN IF a.status = "throw" THEN Throw(a.value, c1 \o a.calls)
     ELSE LET s == transportSend("sendMessage",
                      TokenBody(info, out.value, payment.token.amount), e)
              c2 == c1 \o a.calls \o s.calls
          IN IF s.status = "throw" THEN Throw(s.value, c2)
             ELSE Ret("transport", s.value, c2)

rejectPaymentDirect(caller, payment, e) ==
  LET t == tryRejectDirect(caller, payment, e)
  IN IF t.status = "throw" THEN Ret("failure", UnableToSendBack, t.calls) ELSE t

rejectPayment(r, caller, hasKey, payment, e) ==
  IF r = "custodial" THEN rejectPaymentCustodial(caller, hasKey, payment, e)
  ELSE rejectPaymentDirect(caller, payment, e)

\* --------------------------------------------------------------- listing
\* What the transport lists: the messages waiting in the caller's inbox of
\* that name, in the order they were stored.
listMessages(caller, messageBox) ==
  SelectSeq(store, LAMBDA m : /\ m.recipient = caller
                              /\ m.messageBox = messageBox
                              /\ m.messageId \notin acked)

IncomingPayment(x) ==
  [messageId |-> x.messageId, sender |-> x.sender, amount |-> x.amount,
   token |-> JSONparse(x.body)]

\* Mutant: the listing acknowledges what it lists.
listAndAcknowledge(caller, e) ==
  LET messages == listMessages(caller, STANDARD_PAYMENT_MESSAGEBOX)
  IN Ret("list", [i \in 1..Len(messages) |-> IncomingPayment(messages[i])],
         [i \in 1..Len(messages) |->
            [call |-> "acknowledgeMessage",
             messageIds |-> <<messages[i].messageId>>, outcome |-> "ok"]])

listIncomingPayments(caller, e) ==
  LET c == [call |-> "listMessages", messageBox |-> STANDARD_PAYMENT_MESSAGEBOX,
            outcome |-> e.list]
  IN IF e.list # "ok" THEN Throw("ERR_LIST", <<c>>)
     ELSE LET messages == listMessages(caller, STANDARD_PAYMENT_MESSAGEBOX)
          IN Ret("list", [i \in 1..Len(messages) |-> IncomingPayment(messages[i])],
                 <<c>>)

listenForLivePayments(autoAcknowledge, e) ==
  LET c == [call |-> "listenForLiveMessages",
            messageBox |-> STANDARD_PAYMENT_MESSAGEBOX,
            autoAcknowledge |-> autoAcknowledge, outcome |-> e.listen]
  IN IF e.listen # "ok" THEN Throw("ERR_LISTEN", <<c>>)
     ELSE Ret("undefined", Undefined, <<c>>)

\* ------------------------------------------------ outcomes of the externals
\* The outcomes of the external calls of one handler, and the two nonces
\* crypto.randomBytes gives it.  A handler makes each call at most once and
\* the calls form two chains, each cut short by its first failure:
\*   the claim:  Ninja, submitDirectTransaction, acknowledgeMessage
\*   the token:  getPublicKey, Script, Transaction, createAction, send
\* so an outcome names the call of each chain that fails, if any.
\* The two nonces are equal or differ in createPaymentToken; the calls that
\* store a message draw two different ones.
Samples == {<<"n1", "n2">>, <<"n2", "n2">>}
Sample == <<"n1", "n2">>

Out(fails) == IF fails THEN "throw" ELSE "ok"

Env(fa, fb, fl, sample) ==
  [lib |-> Out(fa = "lib"), claim |-> Out(fa = "claim"), ack |-> Out(fa = "ack"),
   derive |-> Out(fb = "derive"), script |-> Out(fb = "script"),
   parse |-> Out(fb = "parse"), build |-> Out(fb = "build"),
   send |-> Out(fb = "send"), list |-> Out(fl = "list"),
   listen |-> Out(fl = "listen"), prefix |-> sample[1], suffix |-> sample[2]]

ClaimFailures == {"none", "lib", "claim", "ack"}
TokenFailures == {"none", "derive", "script", "build"}
SendFailures == TokenFailures \cup {"send"}
RefundFailures == SendFailures \cup {"parse"}

TokenEnvs == {Env("none", fb, "none", s) : fb \in TokenFailures, s \in Samples}
SendEnvs == {Env("none", fb, "none", Sample) : fb \in SendFailures}
AcceptEnvs == {Env(fa, "none", "none", Sample) : fa \in ClaimFailures}
RejectEnvs ==
  {Env(x[1], x[2], "none", Sample) : x \in ClaimFailures \X RefundFailures}
ListEnvs == {Env("none", "none", fl, Sample) : fl \in {"none", "list"}}
ListenEnvs == {Env("none", "none", fl, Sample) : fl \in {"none", "listen"}}

\* ------------------------------------------------------ effects of a call
OkCalls(o, names) ==
  SelectSeq(o.calls, LAMBDA c : c.call \in names /\ c.outcome = "ok")

SendNames == {"sendMessage", "sendLiveMessage"}

\* The record the transport stores for a message handed to it by caller.
StoredMessage(id, caller, c) ==
  [messageId |-> id, sender |-> caller,
   recipient |-> Field(c.message, "recipient"),
   messageBox |-> Field(c.message, "messageBox"),
   body |-> IF "body" \in DOMAIN c.message THEN JSONstringify(c.message.body)
            ELSE <<>>,
   amount |-> Field(c.message, "amount")]

NewMessages(caller, o) ==
  LET sent == OkCalls(o, SendNames)
  IN [i \in 1..Len(sent) |-> StoredMessage(Len(store) + i, caller, sent[i])]

NewAcks(o) ==
  LET a == OkCalls(o, {"acknowledgeMessage"})
  IN {a[i].messageIds[1] : i \in 1..Len(a)}

\* The state after the handler op, called by caller with arg, ended as o.
Apply(op, caller, arg, o) ==
  /\ store' = store \o NewMessages(caller, o)
  /\ acked' = acked \cup NewAcks(o)
  /\ last' = [op |-> op, caller |-> caller, arg |-> arg,
              status |-> o.status, kind |-> o.kind, value |-> o.value,
              calls |-> o.calls]
  /\ UNCHANGED <<rev, clientPrivateKey>>

Room == Len(store) < MaxMsgs

\* The party that starts the exchanges; the other one answers (and its
\* refunds make it a sender in turn).
Senders == {"S"}

Payments(caller) ==
  [recipient : Parties \ {caller}, amount : Amounts]

\* The incoming payments a party may hold: the entries a listing gave it
\* for the messages addressed to it, acknowledged since or not.
Held(caller) ==
  {IncomingPayment(store[i]) : i \in {j \in 1..Len(store) :
      /\ store[j].recipient = caller
      /\ store[j].messageBox = STANDARD_PAYMENT_MESSAGEBOX}}

\* The two calls that may be in flight on one message, and a call that has
\* not been made yet.
Racers == {1, 2}

NotCalled ==
  [pc |-> "idle", op |-> "none", e |-> Env("none", "none", "none", Sample),
   ackedAtStart |-> FALSE, out |-> Ret("undefined", Undefined, <<>>)]

\* ---------------------------------------------------------------- actions
Init ==
  /\ rev \in Revisions
  /\ clientPrivateKey \in BOOLEAN
  /\ store = <<>>
  /\ acked = {}
  /\ last = [op |-> "none", caller |-> "none", arg |-> <<>>,
             status |-> "return", kind |-> "undefined", value |-> Undefined,
             calls |-> <<>>]
  /\ hist = <<>>
  /\ race = [i \in Racers |-> NotCalled]

CreatePaymentToken ==
  \E p \in Senders : \E payment \in Payments(p) : \E e \in TokenEnvs :
    /\ Apply("createPaymentToken", p, payment,
             createPaymentToken(rev, p, payment, e))
    /\ UNCHANGED <<hist, race>>

SendPaymentBy(p) ==
  \E payment \in Payments(p) : \E e \in SendEnvs :
    /\ Room
    /\ Apply("sendPayment", p, payment, sendPayment(rev, p, payment, e))

SendPayment ==
  \E p \in Senders : SendPaymentBy(p) /\ UNCHANGED <<hist, race>>

SendLivePayment ==
  \E p \in Senders : \E payment \in Payments(p) : \E e \in SendEnvs :
    /\ Room
    /\ Apply("sendLivePayment", p, payment,
             sendLivePayment(rev, p, payment, e))
    /\ UNCHANGED <<hist, race>>

ListenForLivePayments ==
  \E p \in Parties : \E autoAcknowledge \in BOOLEAN : \E e \in ListenEnvs :
    /\ Apply("listenForLivePayments", p, [autoAcknowledge |-> autoAcknowledge],
             listenForLivePayments(autoAcknowledge, e))
    /\ UNCHANGED <<hist, race>>

AcceptPaymentBy(p, payment) ==
  \E e \in AcceptEnvs :
    Apply("acceptPayment", p, payment,
          acceptPayment(clientPrivateKey, payment, e))

AcceptPayment ==
  \E p \in Parties : \E payment \in Held(p) :
    AcceptPaymentBy(p, payment) /\ UNCHANGED <<hist, race>>

RejectPayment ==
  \E p \in Parties : \E payment \in Held(p) : \E e \in RejectEnvs :
    /\ Room
    /\ Apply("rejectPayment", p, payment,
             rejectPayment(rev, p, clientPrivateKey, payment, e))
    /\ UNCHANGED <<hist, race>>

ListIncomingPaymentsBy(p) ==
  \E e \in ListEnvs :
    Apply("listIncomingPayments", p, <<>>, listIncomingPayments(p, e))

ListIncomingPayments ==
  \E p \in Parties : ListIncomingPaymentsBy(p) /\ UNCHANGED <<hist, race>>

Next ==
  \/ CreatePaymentToken
  \/ SendPayment
  \/ SendLivePayment
  \/ ListenForLivePayments
  \/ AcceptPayment
  \/ RejectPayment
  \/ ListIncomingPayments

Spec == Init /\ [][Next]_vars

\* ------------------------------------------------ the end-to-end scenario
\* S sends one payment to R; R lists its inbox, accepts an entry of the
\* listing, and accepts the same entry again.  hist keeps each call.
E2ESend ==
  /\ Len(hist) = 0
  /\ SendPaymentBy("S")
  /\ hist' = <<last'>>
  /\ UNCHANGED race

E2EList ==
  /\ Len(hist) = 1
  /\ ListIncomingPaymentsBy("R")
  /\ hist' = Append(hist, last')
  /\ UNCHANGED race

E2EAccept ==
  /\ Len(hist) = 2
  /\ hist[2].status = "return"
  /\ \E i \in 1..Len(hist[2].value) : AcceptPaymentBy("R", hist[2].value[i])
  /\ hist' = Append(hist, last')
  /\ UNCHANGED race

E2EAcceptAgain ==
  /\ Len(hist) = 3
  /\ AcceptPaymentBy("R", hist[3].arg)
  /\ hist' = Append(hist, last')
  /\ UNCHANGED race

NextE2E == E2ESend \/ E2EList \/ E2EAccept \/ E2EAcceptAgain

SpecE2E == Init /\ [][NextE2E]_vars

\* ------------------------------------------ two calls racing on a message
\* S sends one payment to R; R then makes two calls of acceptPayment or
\* rejectPayment on that message, which interleave.  A call is suspended at
\* each external call it awaits.  The signer and the builder neither read
\* nor write the transport, so a call takes three steps: up to the
\* acknowledgment, the acknowledgment (answered from the transport as it
\* is then), and the hand-over of the refund.
RacePayment == IncomingPayment(store[1])

RaceCall(op, e) ==
  IF op = "acceptPayment" THEN acceptPayment(clientPrivateKey, RacePayment, e)
  ELSE rejectPayment(rev, "R", clientPrivateKey, RacePayment, e)

\* The outcomes drawn for a racing call.
RaceEnvs(op) ==
  IF op = "acceptPayment" THEN AcceptEnvs ELSE RejectEnvs

\* The calls of o to the externals named names.
Calls(o, names) == SelectSeq(o.calls, LAMBDA c : c.call \in names)

\* Where a call whose calls are o is suspended next, after step done.
NextPc(o, done) ==
  IF done = "begin" /\ Len(Calls(o, {"acknowledgeMessage"})) > 0
  THEN "acknowledge"
  ELSE IF Len(Calls(o, SendNames)) > 0 THEN "refund"
  ELSE "done"

RaceSend ==
  /\ Len(store) = 0
  /\ SendPaymentBy("S")
  /\ UNCHANGED <<hist, race>>

\* The call i, being op with the outcomes e, has made the calls of o up to
\* its acknowledgment.
Begun(i, op, e, o) ==
  race' = [race EXCEPT ![i] =
             [pc |-> NextPc(o, "begin"), op |-> op, e |-> e,
              ackedAtStart |-> (1 \in acked), out |-> o]]

RaceBegin(i) ==
  /\ Len(store) >= 1
  /\ race[i].pc = "idle"
  /\ \E op \in {"acceptPayment", "rejectPayment"} : \E e \in RaceEnvs(op) :
       Begun(i, op, e, RaceCall(op, e))
  /\ UNCHANGED <<rev, clientPrivateKey, store, acked, last, hist>>

\* The call i has made its acknowledgment, and its calls are those of o.
Acknowledged(i, o) ==
  /\ acked' = acked \cup NewAcks(o)
  /\ race' = [race EXCEPT ![i].pc = NextPc(o, "acknowledge"), ![i].out = o]

RaceAcknowledge(i) ==
  /\ race[i].pc = "acknowledge"
  /\ Acknowledged(i, RaceCall(race[i].op, race[i].e))
  /\ UNCHANGED <<rev, clientPrivateKey, store, last, hist>>

RaceRefund(i) ==
  /\ race[i].pc = "refund"
  /\ store' = store \o NewMessages("R", race[i].out)
  /\ race' = [race EXCEPT ![i].pc = "done"]
  /\ UNCHANGED <<rev, clientPrivateKey, acked, last, hist>>

NextRace ==
  \/ RaceSend
  \/ \E i \in Racers : RaceBegin(i)
  \/ \E i \in Racers : RaceAcknowledge(i)
  \/ \E i \in Racers : RaceRefund(i)

SpecRace == Init /\ [][NextRace]_vars

\* ------------------------------------------------------------ the claims
\* The external calls named name that the call r made.
Made(r, name) == SelectSeq(r.calls, LAMBDA c : c.call = name)

MadeWith(r, name, outcome) ==
  \E i \in 1..Len(r.calls) :
    r.calls[i].call = name /\ r.calls[i].outcome = outcome

Sent(r) == SelectSeq(r.calls, LAMBDA c : c.call \in SendNames)

IsPaymentResult(r) == r.status = "return" /\ r.kind = "PaymentResult"

IsFailure(r, text) == r.status = "return" /\ r.kind = "failure" /\ r.value = text

\* The acknowledgment of r failed with another error than 'already
\* acknowledged'.
AckFault(r) ==
  \E i \in 1..Len(r.calls) :
    /\ r.calls[i].call = "acknowledgeMessage"
    /\ r.calls[i].outcome \notin {"ok", ERR_INVALID_ACKNOWLEDGMENT}

\* C1: an acceptPayment whose claim succeeded and whose acknowledgment was
\* answered 'already acknowledged' (ERR_INVALID_ACKNOWLEDGMENT) returns the
\* PaymentResult {payment, paymentResult}, not the failure indicator.
C1_AcceptToleratesRedelivery ==
  ( /\ last.op = "acceptPayment"
    /\ MadeWith(last, "submitDirectTransaction", "ok")
    /\ MadeWith(last, "acknowledgeMessage", ERR_INVALID_ACKNOWLEDGMENT) )
  => /\ IsPaymentResult(last)
     /\ last.value.payment = last.arg
     /\ last.value.paymentResult.status = "success"

C1_Witness ==
  /\ last.op = "acceptPayment"
  /\ last.arg.messageId \in acked
  /\ MadeWith(last, "submitDirectTransaction", "ok")
  /\ MadeWith(last, "acknowledgeMessage", ERR_INVALID_ACKNOWLEDGMENT)
  /\ IsPaymentResult(last)

\* C2 as claimed: whenever acceptPayment returns the failure indicator, no
\* claim of the message's transaction succeeded during that call.
C2_FailureMeansNoClaim ==
  (last.op = "acceptPayment" /\ ~IsPaymentResult(last))
  => ~MadeWith(last, "submitDirectTransaction", "ok")

\* C2 as amended: whenever acceptPayment returns the failure indicator,
\* either no claim succeeded during that call, or the claim succeeded and
\* the acknowledgment failed with an error other than 'already
\* acknowledged'.
C2_FailureMeansNoClaimOrAckFault ==
  (last.op = "acceptPayment" /\ ~IsPaymentResult(last))
  => \/ ~MadeWith(last, "submitDirectTransaction", "ok")
     \/ AckFault(last)

C2_Witness ==
  /\ last.op = "acceptPayment"
  /\ IsFailure(last, UnableToReceive)
  /\ MadeWith(last, "submitDirectTransaction", "ok")
  /\ AckFault(last)
  /\ last.arg.messageId \notin acked

\* C3: acceptPayment never throws; when the signer selection fails, the
\* claim fails, or the acknowledgment fails with another error than
\* 'already acknowledged', it returns the failure indicator.
C3_AcceptNeverThrows ==
  last.op = "acceptPayment"
  => /\ last.status = "return"
     /\ ( \/ MadeWith(last, "Ninja", "throw")
          \/ MadeWith(last, "submitDirectTransaction", "throw")
          \/ AckFault(last) )
        => IsFailure(last, UnableToReceive)

C3_Witness ==
  /\ last.op = "acceptPayment"
  /\ MadeWith(last, "Ninja", "throw")
  /\ Len(Made(last, "submitDirectTransaction")) = 0
  /\ IsFailure(last, UnableToReceive)

\* C4: for an incoming payment with amount - fee >= dust threshold,
\* rejectPayment hands exactly one payment to the transport, of amount - fee
\* and addressed to the original sender, and acknowledges the original
\* message exactly once.
C4_RejectRefundsOnce ==
  ( /\ last.op = "rejectPayment"
    /\ last.arg.token.amount - FixedFee >= DustThreshold
    /\ last.status = "return" /\ last.kind # "failure" )
  => /\ Len(Sent(last)) = 1
     /\ Field(Sent(last)[1].message, "recipient") = last.arg.sender
     /\ Sent(last)[1].message.amount = last.arg.token.amount - FixedFee
     /\ Len(Made(last, "acknowledgeMessage")) = 1
     /\ Made(last, "acknowledgeMessage")[1].messageIds = <<last.arg.messageId>>

\* C5: for an incoming payment with amount - fee < dust threshold,
\* rejectPayment acknowledges the source message and makes no claim, builds
\* no transaction and sends no message.
C5_DustIsOnlyAcknowledged ==
  ( /\ last.op = "rejectPayment"
    /\ last.arg.token.amount - FixedFee < DustThreshold )
  => /\ Len(Made(last, "acknowledgeMessage")) = 1
     /\ Made(last, "acknowledgeMessage")[1].messageIds = <<last.arg.messageId>>
     /\ Len(Made(last, "submitDirectTransaction")) = 0
     /\ Len(Made(last, "createAction")) = 0
     /\ Len(Sent(last)) = 0

\* C6: when the signer rejects the claim of the incoming transaction during
\* rejectPayment (and nothing else fails), rejectPayment returns a failure
\* indicator: it neither throws nor returns as on success.
C6_RejectSurfacesClaimFailure ==
  ( /\ last.op = "rejectPayment"
    /\ MadeWith(last, "submitDirectTransaction", "throw")
    /\ \A i \in 1..Len(last.calls) :
         last.calls[i].call # "submitDirectTransaction"
         => last.calls[i].outcome = "ok" )
  => last.status = "return" /\ last.kind = "failure"

\* C7: createPaymentToken, sendPayment and sendLivePayment derive the
\* one-time key with the payment's recipient as counterparty.
C7_DerivesForRecipient ==
  last.op \in {"createPaymentToken", "sendPayment", "sendLivePayment"}
  => \A i \in 1..Len(last.calls) :
       last.calls[i].call = "getPublicKey"
       => last.calls[i].counterparty = last.arg.recipient

\* C8: every message handed to the transport, every listing and every live
\* subscription names the inbox "payment_inbox".
C8_FixedInbox ==
  \A i \in 1..Len(last.calls) :
    /\ last.calls[i].call \in SendNames
       => Field(last.calls[i].message, "messageBox") = "payment_inbox"
    /\ last.calls[i].call \in {"listMessages", "listenForLiveMessages"}
       => last.calls[i].messageBox = "payment_inbox"

\* The ids of the messages waiting in the inbox "payment_inbox" of party p.
Waiting(p) ==
  {i \in 1..Len(store) : /\ store[i].recipient = p
                          /\ store[i].messageBox = "payment_inbox"
                          /\ i \notin acked}

\* C9: a listing of an inbox holding N unacknowledged messages returns N
\* entries, in the order of the transport, each {messageId, sender, amount,
\* token} of its message with the token decoding the body (it encodes back
\* to the body); it acknowledges nothing, sends nothing and leaves the
\* transport as it was.
C9_ListingIsAPureRead ==
  [][ (last'.op = "listIncomingPayments" /\ last'.status = "return")
      => LET out == last'.value
         IN /\ Len(out) = Cardinality(Waiting(last'.caller))
            /\ \A i \in 1..Len(out) :
                 /\ DOMAIN out[i] = {"messageId", "sender", "amount", "token"}
                 /\ out[i].messageId \in Waiting(last'.caller)
                 /\ out[i].sender = store[out[i].messageId].sender
                 /\ out[i].amount = store[out[i].messageId].amount
                 /\ JSONstringify(out[i].token) = store[out[i].messageId].body
                 /\ \A j \in 1..Len(out) :
                      i < j => out[i].messageId < out[j].messageId
            /\ Len(Made(last', "acknowledgeMessage")) = 0
            /\ Len(Sent(last')) = 0
            /\ store' = store
            /\ acked' = acked ]_vars

C9_Witness ==
  /\ last.op = "listIncomingPayments"
  /\ last.status = "return"
  /\ Len(last.value) = 2
  /\ Cardinality(Waiting(last.caller)) = 2
  /\ acked = {}

NoFailure(r) == \A i \in 1..Len(r.calls) : r.calls[i].outcome = "ok"

\* C10: end to end.  After S's sendPayment to R, R's listing returns one
\* entry, from S and of the amount sent; acceptPayment of that entry returns
\* a PaymentResult when the signer accepts the claim; a second acceptPayment
\* of the entry does not throw, and its acknowledgment, answered 'already
\* acknowledged', does not make it fail.
C10_EndToEnd ==
  /\ (Len(hist) >= 2 /\ hist[1].status = "return" /\ hist[2].status = "return")
     => /\ Len(hist[2].value) = 1
        /\ hist[2].value[1].amount = hist[1].arg.amount
        /\ hist[2].value[1].sender = "S"
        /\ hist[2].value[1].token.amount = hist[1].arg.amount
  /\ (Len(hist) >= 3 /\ NoFailure(hist[3]))
     => /\ IsPaymentResult(hist[3])
        /\ hist[3].value.payment = hist[2].value[1]
  /\ (Len(hist) = 4 /\ IsPaymentResult(hist[3]))
     => /\ hist[4].status = "return"
        /\ ~MadeWith(hist[4], "acknowledgeMessage", "ok")
        /\ (MadeWith(hist[4], "submitDirectTransaction", "ok") /\ ~AckFault(hist[4]))
           => IsPaymentResult(hist[4])

C10_Witness ==
  /\ Len(hist) = 4
  /\ hist[1].arg.amount = 10000
  /\ Len(hist[2].value) = 1
  /\ hist[2].value[1].amount = 10000
  /\ IsPaymentResult(hist[3])
  /\ IsPaymentResult(hist[4])
  /\ MadeWith(hist[4], "acknowledgeMessage", ERR_INVALID_ACKNOWLEDGMENT)

\* The primitive of the transport each sending operation is documented to use.
PrimitiveOf(op) == IF op = "sendPayment" THEN "sendMessage" ELSE "sendLiveMessage"

\* C11: a sendPayment that returns has handed the token it built to the
\* store-and-forward primitive (sendMessage) exactly once, a sendLivePayment
\* to the live primitive (sendLiveMessage) exactly once; neither makes a
\* call of the other's primitive.
C11_EachSendUsesItsPrimitive ==
  last.op \in {"sendPayment", "sendLivePayment"}
  => /\ \A i \in 1..Len(Sent(last)) : Sent(last)[i].call = PrimitiveOf(last.op)
     /\ last.status = "return"
        => /\ Len(Sent(last)) = 1
           /\ "body" \in DOMAIN Sent(last)[1].message
           /\ Sent(last)[1].message.recipient = last.arg.recipient

\* An external call of the construction of a token failed during the call r.
ConstructionFailed(r) ==
  \/ MadeWith(r, "getPublicKey", "throw")
  \/ MadeWith(r, "Script", "throw")
  \/ MadeWith(r, "createAction", "throw")

\* C12: when the key derivation, the script building or the transaction
\* building fails during createPaymentToken, sendPayment or
\* sendLivePayment, the call throws that failure and hands no message to
\* the transport; the transport stores nothing.
C12_ConstructionFailurePropagates ==
  [][ ( /\ last'.op \in {"createPaymentToken", "sendPayment", "sendLivePayment"}
        /\ ConstructionFailed(last') )
      => /\ last'.status = "throw"
         /\ last'.value \in {"ERR_DERIVE", "ERR_SCRIPT", "ERR_BUILD"}
         /\ Len(Sent(last')) = 0
         /\ store' = store ]_vars

C12_Witness ==
  /\ last.op = "sendPayment"
  /\ MadeWith(last, "getPublicKey", "ok")
  /\ MadeWith(last, "createAction", "throw")
  /\ last.status = "throw"
  /\ store = <<>>

\* C13: the token createPaymentToken returns for a payment of A satoshis
\* has amount A and exactly one output descriptor, with vout 0 and satoshis
\* A; the transaction was requested once, with no input and a single output
\* of A satoshis paying the script built from the derived key.
C13_TokenCarriesTheAmount ==
  (last.op = "createPaymentToken" /\ last.status = "return")
  => LET b == last.value.body
         outs == b.transaction.outputs
         built == Made(last, "createAction")
     IN /\ last.arg.amount > 0
        /\ b.amount = last.arg.amount
        /\ Len(outs) = 1
        /\ DOMAIN outs[1] = {"vout", "satoshis", "derivationSuffix"}
        /\ outs[1].vout = 0
        /\ outs[1].satoshis = last.arg.amount
        /\ Len(built) = 1
        /\ built[1].inputs = <<>>
        /\ Len(built[1].outputs) = 1
        /\ built[1].outputs[1].satoshis = last.arg.amount
        /\ built[1].outputs[1].script
             = <<"p2pkh", Made(last, "Script")[1].publicKey>>
        /\ b.transaction.rawTx.outputs = built[1].outputs

C13_Witness ==
  /\ last.op = "createPaymentToken"
  /\ last.status = "return"
  /\ last.arg.amount = 10000
  /\ last.value.body.amount = 10000
  /\ last.value.body.transaction.outputs[1].satoshis = 10000

\* C14: the derivationPrefix of a token and the derivationSuffix of its
\* single output are the two nonces whose concatenation was the key id of
\* the derivation, made under the protocol identifier [2, '3241645161d8'];
\* deriving again from them, the protocol identifier and the token's
\* recipient as counterparty gives the key that locks the token's output.
C14_DerivationRoundTrip ==
  (last.op = "createPaymentToken" /\ last.status = "return")
  => LET b == last.value.body
         keyID == KeyID(b.derivationPrefix,
                        b.transaction.outputs[1].derivationSuffix)
         d == Made(last, "getPublicKey")[1]
         locked == b.transaction.rawTx.outputs[1].script
     IN /\ d.keyID = keyID
        /\ d.protocolID = <<2, "3241645161d8">>
        /\ locked = <<"p2pkh", DerivedKey(last.caller, d.protocolID, keyID,
                                          last.value.recipient)>>

\* The custody service accepted what the racing call i submitted to it: the
\* claim of the incoming transaction, or, for the refund that spends the
\* original output itself, the transaction that spends it.
RaceClaimed(i) ==
  IF rev = "direct" /\ race[i].op = "rejectPayment"
  THEN MadeWith(race[i].out, "createAction", "ok")
  ELSE MadeWith(race[i].out, "submitDirectTransaction", "ok")

AlreadyAcknowledged(r) ==
  MadeWith(r, "acknowledgeMessage", ERR_INVALID_ACKNOWLEDGMENT)

\* Every call of r other than the acknowledgment succeeded.
OnlyAckFailed(r) ==
  \A k \in 1..Len(r.calls) :
    r.calls[k].call # "acknowledgeMessage" => r.calls[k].outcome = "ok"

\* C15: two calls of acceptPayment/rejectPayment racing on one message.
\* When both have ended, the custody service accepted both claims and no
\* acknowledgment met a fault of the transport: one acknowledgment
\* succeeded, the other was answered 'already acknowledged', the message is
\* acknowledged, and the call that lost the race is not a failure when its
\* other calls succeeded: it returns, an acceptPayment its PaymentResult, a
\* rejectPayment as on success.
C15_RaceIsSafeAtAcknowledgment ==
  (\A i \in Racers : /\ race[i].pc = "done"
                      /\ RaceClaimed(i)
                      /\ ~AckFault(race[i].out))
  => /\ 1 \in acked
     /\ \E i \in Racers :
          /\ MadeWith(race[i].out, "acknowledgeMessage", "ok")
          /\ AlreadyAcknowledged(race[3 - i].out)
     /\ \A i \in Racers :
          (AlreadyAcknowledged(race[i].out) /\ OnlyAckFailed(race[i].out))
          => /\ race[i].out.status = "return"
             /\ race[i].out.kind # "failure"
             /\ race[i].op = "acceptPayment" => IsPaymentResult(race[i].out)

\* Both calls had made their claim before either acknowledged.
C15_Witness ==
  /\ \A i \in Racers : /\ race[i].pc = "done"
                        /\ RaceClaimed(i)
                        /\ ~race[i].ackedAtStart
  /\ race[1].op = "acceptPayment"
  /\ race[2].op = "rejectPayment"
  /\ AlreadyAcknowledged(race[1].out)
  /\ IsPaymentResult(race[1].out)
  /\ MadeWith(race[2].out, "acknowledgeMessage", "ok")
  /\ 1 \in acked

\* Every call of r to one of thens comes after a call of first that succeeded.
Precedes(r, first, thens) ==
  \A j \in 1..Len(r.calls) :
    r.calls[j].call \in thens
    => \E i \in 1..(j - 1) :
         r.calls[i].call = first /\ r.calls[i].outcome = "ok"

\* C16: in the custodial refund, rejectPayment hands a refund to the
\* transport only after the claim of the incoming transaction succeeded;
\* when the claim failed, no refund is sent.
C16_RefundOnlyAfterCustody ==
  (rev = "custodial" /\ last.op = "rejectPayment")
  => /\ Precedes(last, "submitDirectTransaction", SendNames)
     /\ MadeWith(last, "submitDirectTransaction", "throw") => Len(Sent(last)) = 0

\* C17: every acknowledgment of rejectPayment is idempotent, the one of the
\* dust path included: when the transport answers ERR_INVALID_ACKNOWLEDGMENT
\* (the message was acknowledged already) and nothing else fails,
\* rejectPayment does not throw.
C17_RejectAcknowledgesIdempotently ==
  ( /\ last.op = "rejectPayment"
    /\ AlreadyAcknowledged(last)
    /\ OnlyAckFailed(last) )
  => last.status = "return"

\* C18: in acceptPayment the claim precedes the acknowledgment:
\* acknowledgeMessage is called only after submitDirectTransaction
\* succeeded; when the signer selection or the claim fails, the call
\* acknowledges nothing, the transport's acknowledgments are unchanged and a
\* message that was waiting in the inbox is still waiting.
C18_ClaimPrecedesAcknowledgment ==
  [][ last'.op = "acceptPayment"
      => /\ Precedes(last', "submitDirectTransaction", {"acknowledgeMessage"})
         /\ ~MadeWith(last', "submitDirectTransaction", "ok")
            => /\ Len(Made(last', "acknowledgeMessage")) = 0
               /\ acked' = acked
               /\ \A p \in Parties : Waiting(p) \subseteq {i \in 1..Len(store') :
                     /\ store'[i].recipient = p
                     /\ store'[i].messageBox = "payment_inbox"
                     /\ i \notin acked'} ]_vars

C18_Witness ==
  /\ last.op = "acceptPayment"
  /\ MadeWith(last, "submitDirectTransaction", "throw")
  /\ IsFailure(last, UnableToReceive)
  /\ last.arg.messageId \in Waiting(last.caller)

\* The direct refund acknowledges only after the refund transaction was
\* built.
AckAfterBuild(r) == Precedes(r, "createAction", {"acknowledgeMessage"})

\* C19 as claimed: in the direct refund the message is acknowledged only
\* after the refund transaction was built, and whenever rejectPayment
\* returns 'Unable to send back rejected payment!' that call has not
\* acknowledged the message.
C19_FailureMeansNotAcknowledged ==
  (rev = "direct" /\ last.op = "rejectPayment")
  => /\ AckAfterBuild(last)
     /\ IsFailure(last, UnableToSendBack)
        => ~MadeWith(last, "acknowledgeMessage", "ok")

\* C19 as amended: in the direct refund the message is acknowledged only
\* after the refund transaction was built, and whenever rejectPayment
\* returns 'Unable to send back rejected payment!', either that call has
\* not acknowledged the message, or it has and the hand-over of the refund
\* token to the transport failed afterwards.
C19_FailureMeansNotAcknowledgedOrSendFailed ==
  (rev = "direct" /\ last.op = "rejectPayment")
  => /\ AckAfterBuild(last)
     /\ IsFailure(last, UnableToSendBack)
        => \/ ~MadeWith(last, "acknowledgeMessage", "ok")
           \/ /\ MadeWith(last, "sendMessage", "throw")
              /\ Precedes(last, "acknowledgeMessage", {"sendMessage"})

C19_Witness ==
  /\ rev = "direct"
  /\ last.op = "rejectPayment"
  /\ IsFailure(last, UnableToSendBack)
  /\ MadeWith(last, "createAction", "ok")
  /\ MadeWith(last, "acknowledgeMessage", "ok")
  /\ MadeWith(last, "sendMessage", "throw")
  /\ last.arg.messageId \in acked

====
